---------------------------- MODULE Spec2Model ----------------------------
(***************************************************************************)
(* Model of src/main_org.py: the name-extraction cascade                   *)
(* (extract_mart_name), the dataset connection (get_db) and the request    *)
(* handler (analyze_query).                                                *)
(*                                                                         *)
(* Text.  A Python str is a sequence of lexical units.  TLA+ strings are   *)
(* ASCII, so the Korean units are romanised:                               *)
(*    "LotteMart" = 롯데마트   "Emart"    = 이마트    "GS","25" = GS25     *)
(*    "CU"        = CU         "SevenEleven" = 세븐일레븐                  *)
(*    "Homeplus"  = 홈플러스   "yeok" = 역 (any Hangul syllable)           *)
(*    "jeom"      = 점         "sp"   = one whitespace character           *)
(* A unit made of Hangul syllables only belongs to the class [가-힣].      *)
(*                                                                         *)
(* Python values.  plan.get('mart_name', '') may return any JSON value, so *)
(* a value is a record [type, v]: Str(s), None, PyInt(digits).             *)
(*                                                                         *)
(* Geometry.  Coordinates of the projected CRS are integers counting half  *)
(* metres, so a planar distance d (in metres) is known exactly through     *)
(* distSq = (2d)^2 = dx^2 + dy^2.                                          *)
(***************************************************************************)
EXTENDS Integers, Sequences, FiniteSets, TLC

VARIABLES
    text,         \* request.text, the query
    ai,           \* what ollama.chat did for this request
    search_term,  \* the value extract_mart_name returned
    conn,         \* the DuckDB connection: "none", "open" or "closed"
    pc,           \* where the handler stands: "get_db", "extract", "place",
                  \* "facility", "transform", "assemble", "finally"; "done"
                  \* once it returned, "raised" once an exception left it
    queries,      \* the queries issued against the parquet datasets
    mart_ds,      \* the rows of mart.parquet the mart query read
    mart_data,    \* the row the mart query returned
    fire_ds,      \* the rows of firestation.parquet the fire query read
    fire_data,    \* the row the fire-station query returned
    coords,       \* the two points in EPSG:4326
    response      \* the object the handler returns

vars == <<text, ai, search_term, conn, pc, queries,
          mart_ds, mart_data, fire_ds, fire_data, coords, response>>

(***************************************************************************)
(* Bounds of the model.                                                    *)
(***************************************************************************)
MaxTextLen == 3
MaxFireRows == 2
MaxCoord == 2

(***************************************************************************)
(* Python values                                                           *)
(***************************************************************************)
Str(s) == [type |-> "str", v |-> s]
None == [type |-> "NoneType", v |-> <<>>]
PyInt(d) == [type |-> "int", v |-> <<d>>]
Missing == [type |-> "missing", v |-> <<>>]

\* bool(x), as `if not search_term` evaluates it
Truthy(p) ==
    CASE p.type = "str" -> p.v # <<>>
      [] p.type = "int" -> p.v # <<"0">>
      [] OTHER -> FALSE

\* str(x), as an f-string formats it
PyStr(p) == IF p.type = "NoneType" THEN <<"None">> ELSE p.v

(***************************************************************************)
(* Text                                                                    *)
(***************************************************************************)
Units == {"LotteMart", "Emart", "GS", "25", "CU", "SevenEleven", "Homeplus",
          "sp", "yeok", "jeom"}

\* the character class [가-힣]
Hangul == {"LotteMart", "Emart", "SevenEleven", "Homeplus", "yeok", "jeom"}

\* the character class \s, and what str.split() splits on
Space == {"sp"}

SeqsUpTo(S, n) == UNION {[1..k -> S] : k \in 0..n}

Texts == SeqsUpTo(Units, MaxTextLen)

\* s[i..] starts with p
StartsWithAt(s, i, p) ==
    /\ i + Len(p) - 1 <= Len(s)
    /\ SubSeq(s, i, i + Len(p) - 1) = p

\* Python's `kw in text`
Contains(s, p) == \E i \in 1..(Len(s) + 1) : StartsWithAt(s, i, p)

\* the length of the longest run of units of class C starting at s[i]
RunLen(s, i, C) ==
    LET ends == {j \in (i - 1)..Len(s) : \A k \in i..j : s[k] \in C}
    IN  (CHOOSE j \in ends : \A k \in ends : k <= j) - (i - 1)

\* the alternation (롯데마트|이마트|GS25|CU|세븐일레븐|홈플러스), in its order
PatternBrands ==
    << <<"LotteMart">>, <<"Emart">>, <<"GS", "25">>, <<"CU">>,
       <<"SevenEleven">>, <<"Homeplus">> >>

NoMatch == [found |-> FALSE, g1 |-> <<>>, g2 |-> <<>>]

\* mart_pattern tried at position i: brand, \s* (greedy), [가-힣]+ (greedy),
\* then 점?, which matches the empty string after a maximal Hangul run
MatchAt(s, i) ==
    LET hits == {k \in 1..Len(PatternBrands) :
                    /\ StartsWithAt(s, i, PatternBrands[k])
                    /\ LET j == i + Len(PatternBrands[k])
                           w == RunLen(s, j, Space)
                       IN  RunLen(s, j + w, Hangul) >= 1}
    IN  IF hits = {} THEN NoMatch
        ELSE LET k == CHOOSE h \in hits : \A h2 \in hits : h <= h2
                 j == i + Len(PatternBrands[k])
                 w == RunLen(s, j, Space)
                 n == RunLen(s, j + w, Hangul)
             IN  [found |-> TRUE, g1 |-> PatternBrands[k],
                  g2 |-> SubSeq(s, j + w, j + w + n - 1)]

\* re.search(mart_pattern, text): the leftmost match
SearchMartPattern(s) ==
    LET at == {i \in 1..Len(s) : MatchAt(s, i).found}
    IN  IF at = {} THEN NoMatch
        ELSE MatchAt(s, CHOOSE i \in at : \A i2 \in at : i <= i2)

\* the first keyword of the list kws that occurs in s, or <<>>
FirstKeyword(kws, s) ==
    LET hits == {k \in 1..Len(kws) : Contains(s, kws[k])}
    IN  IF hits = {} THEN <<>>
        ELSE kws[CHOOSE k \in hits : \A k2 \in hits : k <= k2]

\* the keyword list of the parse-failure path
ParseKeywords ==
    << <<"LotteMart">>, <<"Emart">>, <<"GS", "25">>, <<"CU">>, <<"SevenEleven">> >>

\* the keyword list of the AI-exception path
ErrorKeywords == << <<"LotteMart">>, <<"Emart">>, <<"GS">>, <<"CU">> >>

\* text.split()[0] if text.split() else ''
FirstToken(s) ==
    LET lead == RunLen(s, 1, Space)
    IN  SubSeq(s, lead + 1, lead + RunLen(s, lead + 1, Units \ Space))

(***************************************************************************)
(* The response of ollama.chat:                                            *)
(*   raise     - the call (or response['message']['content']) raises       *)
(*   object    - content is a JSON object; mart_name is the value of its   *)
(*               field (Missing when absent)                               *)
(*   nonobject - content is JSON but no object: plan.get raises            *)
(*   text      - content is not JSON; match is what the field regex        *)
(*               captures from it (<<>> when it does not match)            *)
(***************************************************************************)
AINames == { <<"Emart", "sp", "yeok">>, <<"CU">> }

AIResponse(k, f, m) == [kind |-> k, mart_name |-> f, match |-> m]

NoAI == AIResponse("none", Missing, <<>>)

AIOutcomes ==
    {AIResponse("raise", Missing, <<>>), AIResponse("nonobject", Missing, <<>>)}
    \cup {AIResponse("object", f, <<>>) :
            f \in {Missing, Str(<<>>), None, PyInt("5")} \cup {Str(n) : n \in AINames}}
    \cup {AIResponse("text", Missing, m) : m \in {<<>>} \cup AINames}

\* the body of the inner `except:` after the field regex found nothing
ParseFailureFallback(s) ==
    LET m == SearchMartPattern(s)
        kw == FirstKeyword(ParseKeywords, s)
    IN  IF m.found THEN Str(m.g1 \o <<"sp">> \o m.g2)
        ELSE IF kw # <<>> THEN Str(kw)
        ELSE Str(FirstToken(s))

\* the body of `except Exception as e:`
AIErrorFallback(s) ==
    LET m == SearchMartPattern(s)
        kw == FirstKeyword(ErrorKeywords, s)
    IN  IF m.found THEN Str(m.g1 \o <<"sp">> \o m.g2)
        ELSE IF kw # <<>> THEN Str(kw)
        ELSE Str(<<>>)

extract_mart_name(s, a) ==
    IF a.kind = "raise" THEN AIErrorFallback(s)
    ELSE IF a.kind = "object"
         THEN (IF a.mart_name = Missing THEN Str(<<>>) ELSE a.mart_name)
    ELSE IF a.match # <<>> THEN Str(a.match)
    ELSE ParseFailureFallback(s)

(***************************************************************************)
(* State                                                                   *)
(***************************************************************************)
NoRow == [found |-> FALSE]
NoResponse == [pending |-> TRUE]

Idle ==
    /\ ai = NoAI
    /\ search_term = Missing
    /\ conn = "none"
    /\ queries = <<>>
    /\ mart_ds = <<>>
    /\ mart_data = NoRow
    /\ fire_ds = <<>>
    /\ fire_data = NoRow
    /\ coords = <<>>
    /\ response = NoResponse

(***************************************************************************)
(* extract_mart_name on its own: every text, every response of the model   *)
(***************************************************************************)
InitExtract ==
    /\ text \in Texts
    /\ pc = "call"
    /\ Idle

ExtractCall ==
    /\ pc = "call"
    /\ \E a \in AIOutcomes :
          /\ ai' = a
          /\ search_term' = extract_mart_name(text, a)
    /\ pc' = "ret"
    /\ UNCHANGED <<text, conn, queries, mart_ds, mart_data, fire_ds, fire_data, coords, response>>

NextExtract == ExtractCall

SpecExtract == InitExtract /\ [][NextExtract]_vars


(***************************************************************************)
(* The spatial datasets and the queries DuckDB runs on them                *)
(***************************************************************************)
Grid == (0..MaxCoord) \X (0..MaxCoord)

Row(n, g) == [nam |-> n, geometry |-> g]

\* the contents mart.parquet may have
MartDatasets ==
    { <<>>,
      << Row(<<"Emart", "sp", "yeok">>, <<0, 0>>),
         Row(<<"Emart", "sp", "yeok", "jeom">>, <<1, 1>>),
         Row(<<"cu", "sp", "yeok">>, <<1, 0>>) >> }

\* the contents firestation.parquet may have: up to MaxFireRows rows, row i
\* named "FS i", at any point of the grid
FireDatasets ==
    UNION {{[i \in 1..k |-> Row(<<"FS", ToString(i)>>, ps[i])] : ps \in [1..k -> Grid]} :
             k \in 0..MaxFireRows}

ST_AsText(g) == [wkt |-> "POINT", x |-> g[1], y |-> g[2]]
ST_GeomFromText(w) == <<w.x, w.y>>
ST_X(g) == g[1]
ST_Y(g) == g[2]

\* ST_Distance, as the square of the distance in half metres
ST_DistanceSq(g, h) == (g[1] - h[1]) * (g[1] - h[1]) + (g[2] - h[2]) * (g[2] - h[2])

\* the case folding of ILIKE
Lower(u) == IF u = "CU" THEN "cu" ELSE IF u = "GS" THEN "gs" ELSE u
LowerSeq(s) == [i \in 1..Len(s) |-> Lower(s[i])]

\* nam ILIKE '%term%'
ILike(nam, term) == Contains(LowerSeq(nam), LowerSeq(term))

\* WHERE nam ILIKE ? LIMIT 1: the first matching row, or 0
FirstMatchingRow(ds, term) ==
    LET hits == {i \in 1..Len(ds) : ILike(ds[i].nam, term)}
    IN  IF hits = {} THEN 0 ELSE CHOOSE i \in hits : \A j \in hits : i <= j

NearestRowsDesc(ds, w) ==
    {i \in 1..Len(ds) : \A j \in 1..Len(ds) :
        ST_DistanceSq(ds[i].geometry, ST_GeomFromText(w))
            >= ST_DistanceSq(ds[j].geometry, ST_GeomFromText(w))}

\* ORDER BY distance ASC LIMIT 1: the rows the query may return.  The query
\* orders by distance alone, so among rows at the same distance SQL leaves
\* the choice to the engine.
NearestRows(ds, w) ==
    {i \in 1..Len(ds) : \A j \in 1..Len(ds) :
        ST_DistanceSq(ds[i].geometry, ST_GeomFromText(w))
            <= ST_DistanceSq(ds[j].geometry, ST_GeomFromText(w))}

\* Transformer.from_crs("EPSG:5179", "EPSG:4326", always_xy=True).transform:
\* the projection is not computed, the result names the point it comes from
Transform(x, y) == [crs |-> "EPSG:4326", lon_lat_of |-> <<x, y>>]

Format0fTruncated(dsq) ==
    ToString(CHOOSE n \in 0..dsq : (2 * n) * (2 * n) <= dsq /\ dsq < (2 * n + 2) * (2 * n + 2))

\* f"{distance:.0f}" for distance = sqrt(dsq) / 2: the decimal digits of the
\* nearest integer, an exact half going to the even neighbour
Format0f(dsq) ==
    LET f == CHOOSE n \in 0..dsq : (2 * n) * (2 * n) <= dsq /\ dsq < (2 * n + 2) * (2 * n + 2)
        h == (2 * f + 1) * (2 * f + 1)
    IN  ToString(IF dsq < h THEN f
                 ELSE IF dsq > h THEN f + 1
                 ELSE IF f % 2 = 0 THEN f ELSE f + 1)

Feature(name, type, geom) ==
    [type |-> "Feature", geometry |-> geom,
     properties |-> [display_name |-> name, type |-> type]]

GeoJsonFeaturesSwapped(mart_name, mart_pt, fire_name, fire_pt) ==
    << Feature(fire_name, "firestation", fire_pt), Feature(mart_name, "mart", mart_pt) >>

\* json_group_array over the mart row UNION ALL the fire-station row
GeoJsonFeatures(mart_name, mart_pt, fire_name, fire_pt) ==
    << Feature(mart_name, "mart", mart_pt), Feature(fire_name, "firestation", fire_pt) >>

\* result['summary']
Summary(mart_name, fire_name, dsq) ==
    mart_name \o <<"eseo gajang gakkaun sobangseoneun">> \o fire_name
        \o <<"imnida (geori:">> \o <<Format0f(dsq)>> \o <<"m)">>

AnswerText(msg) == [answer_text |-> msg]

(***************************************************************************)
(* analyze_query, one request                                              *)
(***************************************************************************)
QueryTexts ==
    { <<>>, <<"sp">>, <<"Emart", "yeok", "jeom">>, <<"Homeplus">>, <<"yeok", "sp", "CU">> }

Init ==
    /\ text \in QueryTexts
    /\ pc = "get_db"
    /\ Idle

\* conn = get_db(), which the handler calls before its try
GetDb ==
    /\ pc = "get_db"
    /\ \/ /\ conn' = "none"          \* duckdb.connect() raises
          /\ pc' = "raised"
       \/ /\ conn' = "open"          \* INSTALL spatial; LOAD spatial; raises
          /\ pc' = "raised"
       \/ /\ conn' = "open"
          /\ pc' = "extract"
    /\ UNCHANGED <<text, ai, search_term, queries, mart_ds, mart_data, fire_ds, fire_data,
                   coords, response>>

\* an exception inside the try: except Exception builds the error answer
Raises ==
    /\ response' = AnswerText(<<"error">>)
    /\ pc' = "finally"

\* search_term = extract_mart_name(request.text); if not search_term: return
Extract ==
    /\ pc = "extract"
    /\ \E a \in AIOutcomes :
          /\ ai' = a
          /\ search_term' = extract_mart_name(text, a)
    /\ IF Truthy(search_term')
       THEN pc' = "place" /\ UNCHANGED response
       ELSE pc' = "finally" /\ response' = AnswerText(<<"name not recognized">>)
    /\ UNCHANGED <<text, conn, queries, mart_ds, mart_data, fire_ds, fire_data, coords>>

\* the mart query and `if not mart_data: return`
PlaceLookup ==
    /\ pc = "place"
    /\ queries' = Append(queries, "mart")
    /\ \/ \E ds \in MartDatasets :
            LET i == FirstMatchingRow(ds, PyStr(search_term))
            IN  IF i = 0
                THEN /\ response' = AnswerText(<<"not found:">> \o PyStr(search_term))
                     /\ pc' = "finally"
                     /\ mart_ds' = ds
                     /\ UNCHANGED mart_data
                ELSE /\ mart_ds' = ds
                     /\ mart_data' = [found |-> TRUE, row |-> i, nam |-> ds[i].nam,
                                      wkt |-> ST_AsText(ds[i].geometry),
                                      geometry |-> ds[i].geometry]
                     /\ pc' = "facility"
                     /\ UNCHANGED response
       \/ Raises /\ UNCHANGED <<mart_ds, mart_data>>
    /\ UNCHANGED <<text, ai, search_term, conn, fire_ds, fire_data, coords>>

\* the fire-station query and `if not fire_data: return`; the distance of the
\* returned row is kept as ST_DistanceSq gives it
FacilityLookup ==
    /\ pc = "facility"
    /\ queries' = Append(queries, "firestation")
    /\ \/ \E ds \in FireDatasets :
            /\ fire_ds' = ds
            /\ IF ds = <<>>
               THEN /\ response' = AnswerText(<<"no fire station data">>)
                    /\ pc' = "finally"
                    /\ UNCHANGED fire_data
               ELSE /\ \E i \in NearestRows(ds, mart_data.wkt) :
                          fire_data' =
                              [found |-> TRUE, row |-> i, nam |-> ds[i].nam,
                               wkt |-> ST_AsText(ds[i].geometry),
                               distance |-> ST_DistanceSq(ds[i].geometry,
                                                ST_GeomFromText(mart_data.wkt))]
                    /\ pc' = "transform"
                    /\ UNCHANGED response
       \/ Raises /\ UNCHANGED <<fire_ds, fire_data>>
    /\ UNCHANGED <<text, ai, search_term, conn, mart_ds, mart_data, coords>>

\* ST_X / ST_Y of both WKT texts and transformer.transform of both points
TransformCoords ==
    /\ pc = "transform"
    /\ \/ /\ coords' =
               << Transform(ST_X(ST_GeomFromText(mart_data.wkt)),
                            ST_Y(ST_GeomFromText(mart_data.wkt))),
                  Transform(ST_X(ST_GeomFromText(fire_data.wkt)),
                            ST_Y(ST_GeomFromText(fire_data.wkt))) >>
          /\ pc' = "assemble"
          /\ UNCHANGED response
       \/ Raises /\ UNCHANGED coords
    /\ UNCHANGED <<text, ai, search_term, conn, queries, mart_ds, mart_data, fire_ds, fire_data>>

\* the GeoJSON query, json.loads, result['summary'] and `return result`
Assemble ==
    /\ pc = "assemble"
    /\ \/ /\ response' =
               [type |-> "FeatureCollection",
                features |-> GeoJsonFeatures(mart_data.nam, coords[1],
                                             fire_data.nam, coords[2]),
                summary |-> Summary(mart_data.nam, fire_data.nam, fire_data.distance)]
          /\ pc' = "finally"
       \/ Raises
    /\ UNCHANGED <<text, ai, search_term, conn, queries, mart_ds, mart_data, fire_ds, fire_data,
                   coords>>

\* finally: conn.close(), after which the handler returns its response
Finally ==
    /\ pc = "finally"
    /\ conn' = "closed"
    /\ pc' = "done"
    /\ UNCHANGED <<text, ai, search_term, queries, mart_ds, mart_data, fire_ds, fire_data,
                   coords, response>>

Next ==
    \/ GetDb
    \/ Extract
    \/ PlaceLookup
    \/ FacilityLookup
    \/ TransformCoords
    \/ Assemble
    \/ Finally

Spec == Init /\ [][Next]_vars

(***************************************************************************)
(* Properties                                                              *)
(***************************************************************************)
IsBlank(s) == \A i \in 1..Len(s) : s[i] \in Space

\* a branch token without its suffix word 점
WithoutJeom(b) ==
    IF Len(b) >= 2 /\ b[Len(b)] = "jeom" THEN SubSeq(b, 1, Len(b) - 1) ELSE b

\* the known brands that occur in s
BrandsIn(s) == {PatternBrands[k] : k \in {h \in 1..Len(PatternBrands) : Contains(s, PatternBrands[h])}}

\* the cascade got no field from the model's response
NoFieldObtained(a) == a.kind \in {"raise", "nonobject", "text"} /\ a.match = <<>>

\* C1: for every text holding a known brand followed by a branch token,
\* extract_mart_name returns "<brand> <branch>" with the suffix word 점 stripped
\* from the branch, whatever the model's response was (parseable JSON,
\* unparseable text, or an exception).
C1_BrandBranchStripped ==
    (pc = "ret" /\ SearchMartPattern(text).found)
        => search_term = Str(SearchMartPattern(text).g1 \o <<"sp">>
                                \o WithoutJeom(SearchMartPattern(text).g2))

\* C2: when the model call raises, extract_mart_name returns what the
\* parse-failure path returns for the same text when the response holds no
\* field match (brand pattern, then keyword, then first token or empty).
C2_ErrorPathEqualsParseFailurePath ==
    (pc = "ret" /\ ai.kind = "raise")
        => search_term = extract_mart_name(text, AIResponse("text", Missing, <<>>))

\* C3: no request has finished (returned or raised) with its dataset
\* connection still open.
C3_ConnectionClosedOnEveryExit ==
    pc \in {"done", "raised"} => conn # "open"

\* C4: no exception escapes analyze_query: a finished request has returned a
\* response object, wherever the exception was raised.
C4_NoExceptionEscapes ==
    pc \in {"done", "raised"}
        => (pc = "done" /\ DOMAIN response \in {{"answer_text"}, {"type", "features", "summary"}})

\* C5: for a blank query text no query is issued against the datasets and the
\* request ends with the "name not recognized" answer, whatever the model
\* call does.
C5_BlankTextIssuesNoQuery ==
    IsBlank(text)
        => /\ queries = <<>>
           /\ pc = "done" => /\ ~Truthy(search_term)
                             /\ response = AnswerText(<<"name not recognized">>)

\* C6: a response never holds both features and answer_text; a response with
\* features is a FeatureCollection returned only after a place and a facility
\* were found, with exactly two features, the mart first and the fire station
\* second, each with the matched record's name as display_name and its type,
\* plus a summary; and a returned response without answer_text is such a
\* FeatureCollection.
C6_FeatureCollectionShape ==
    /\ ~({"features", "answer_text"} \subseteq DOMAIN response)
    /\ (pc = "done" /\ "answer_text" \notin DOMAIN response) => "features" \in DOMAIN response
    /\ "features" \in DOMAIN response =>
          /\ response.type = "FeatureCollection"
          /\ mart_data.found /\ fire_data.found
          /\ Len(response.features) = 2
          /\ response.features[1].properties =
                [display_name |-> mart_ds[mart_data.row].nam, type |-> "mart"]
          /\ response.features[2].properties =
                [display_name |-> fire_ds[fire_data.row].nam, type |-> "firestation"]
          /\ "summary" \in DOMAIN response
          /\ Len(response.summary) > 0

C6_Witness ==
    /\ pc = "done"
    /\ "features" \in DOMAIN response
    /\ mart_data.row = 2
    /\ fire_data.row = 2

\* the distance of row j of the fire-station dataset to the matched place
DistanceOfRow(j) == ST_DistanceSq(fire_ds[j].geometry, mart_ds[mart_data.row].geometry)

ShownMetres == response.summary[Len(response.summary) - 1]

\* n is an integer nearest to sqrt(dsq) / 2
IsNearestInteger(n, dsq) ==
    /\ dsq <= (2 * n + 1) * (2 * n + 1)
    /\ n = 0 \/ (2 * n - 1) * (2 * n - 1) <= dsq

\* sqrt(dsq) / 2 lies exactly halfway between n and a neighbour
IsHalfway(n, dsq) ==
    \/ dsq = (2 * n + 1) * (2 * n + 1)
    \/ n >= 1 /\ dsq = (2 * n - 1) * (2 * n - 1)

\* C8 (as amended): the distance shown in the summary is the computed
\* distance rounded to the nearest whole unit without decimal places, and a
\* distance exactly halfway between two integers is shown as the even one.
C8_SummaryDistanceRoundedHalfEven ==
    "summary" \in DOMAIN response =>
        \E n \in 0..(fire_data.distance + 1) :
            /\ ShownMetres = ToString(n)
            /\ IsNearestInteger(n, fire_data.distance)
            /\ IsHalfway(n, fire_data.distance) => n % 2 = 0

C8_Witness ==
    /\ "summary" \in DOMAIN response
    /\ fire_data.distance = 1
    /\ ShownMetres = "0"

\* C8 (as claimed): standard rounding, a distance exactly halfway between two
\* integers going up: the number shown is floor(distance + 1/2).
C8_SummaryDistanceRoundedHalfUp ==
    "summary" \in DOMAIN response =>
        \E n \in 0..(fire_data.distance + 1) :
            /\ ShownMetres = ToString(n)
            /\ fire_data.distance < (2 * n + 1) * (2 * n + 1)
            /\ n = 0 \/ (2 * n - 1) * (2 * n - 1) <= fire_data.distance

\* C9: extract_mart_name returns a string, and an empty one only for a blank
\* text; a parsed response whose mart_name is missing, empty, null or not a
\* string does not end the cascade with an empty or non-string candidate.
C9_EmptyOnlyForBlankText ==
    pc = "ret" =>
        /\ search_term.type = "str"
        /\ search_term.v = <<>> => IsBlank(text)

\* C10: when the cascade reaches the keyword stage (no field obtained, no
\* brand-plus-branch match) and a known brand occurs in the text,
\* extract_mart_name returns a known brand that occurs in the text, on the
\* parse-failure path and on the AI-exception path alike.
C10_KeywordStageReturnsKnownBrand ==
    (/\ pc = "ret"
     /\ NoFieldObtained(ai)
     /\ ~SearchMartPattern(text).found
     /\ BrandsIn(text) # {})
        => \E b \in BrandsIn(text) : search_term = Str(b)

=============================================================================
